---- MODULE Spec2Model ----
(***************************************************************************)
(* A model of the build-instructions crate: the raw directive formatter    *)
(* (src/src/raw.rs), the output sink it writes through (src/src/core.rs)   *)
(* and the convenience layer over it (src/src/lib.rs).                     *)
(*                                                                         *)
(* Text is a sequence of one-character strings, so that a line can be      *)
(* compared byte for byte, cut at any length and searched for a line       *)
(* terminator.  A context is one raw::Cargo (a Prefix: a prefix and an     *)
(* Out) with the thread that calls it.  An emission is one expansion of    *)
(* the out! macro; it is modelled statement by statement so that other     *)
(* threads can run between its statements.                                 *)
(***************************************************************************)
EXTENDS Integers, Sequences, FiniteSets, TLC

(* ------------------------------ bounds -------------------------------- *)

\* The calls made on the captured context of Spec, whose buffer need not
\* start empty.
MaxCalls == 1

\* The calls made in sequence on the captured context of SpecSeq.
MaxSeq == 2

\* The calls the producers of SpecLive make, all together.
MaxLive == 2

\* The threads of the live specification, each with a context of its own.
Producers == {"t1", "t2"}

\* The one thread of the captured specification.
Tester == "t1"

(* ------------------------------- text --------------------------------- *)

EQ == <<"=">>

NL == <<"\n">>

\* "cargo:", the prefix of raw::Cargo::default().
CargoPrefix == <<"c", "a", "r", "g", "o", ":">>

\* The prefixes a context is built with: the derived Default of Prefix (the
\* empty string) and the one of raw::Cargo.
Prefixes == {<< >>, CargoPrefix}

\* The values passed for an `impl Display` argument: a plain one, and one
\* made of the delimiters of the grammar.
Values == {<<"a">>, <<":", "=">>}

\* The messages passed to warning: the values, and one that holds a line
\* terminator.
Messages == Values \cup {<<"a", "\n">>}

\* A byte that is not valid UTF-8, and the character Path::display shows for it.
NonUtf8 == "<80>"

Replacement == "<U+FFFD>"

\* The paths passed to the convenience layer.
Paths == {<<"a">>, <<"a", NonUtf8>>}

\* Option<T>: None is the empty tuple, Some(v) the tuple of v.
None == << >>

Some(v) == <<v>>

Options(S) == {None} \cup {Some(v) : v \in S}

Take(s, n) == SubSeq(s, 1, n)

(* -------------------- the format strings of raw.rs --------------------- *)

\* "rerun-if-changed={path}"
fmt_rerun_if_changed(path) ==
    <<"r", "e", "r", "u", "n", "-", "i", "f", "-", "c", "h", "a", "n", "g", "e", "d", "=">>
        \o path

\* "rerun-if-env-changed={var}"
fmt_rerun_if_env_changed(var) ==
    <<"r", "e", "r", "u", "n", "-", "i", "f", "-", "e", "n", "v", "-", "c", "h", "a", "n", "g", "e", "d", "=">>
        \o var

\* "rustc-link-arg={flag}"
fmt_rustc_link_arg(flag) ==
    <<"r", "u", "s", "t", "c", "-", "l", "i", "n", "k", "-", "a", "r", "g", "=">>
        \o flag

\* "rustc-link-arg-bin={bin}={flag}"
fmt_rustc_link_arg_bin(bin, flag) ==
    <<"r", "u", "s", "t", "c", "-", "l", "i", "n", "k", "-", "a", "r", "g", "-", "b", "i", "n", "=">>
        \o bin \o EQ \o flag

\* "rustc-link-arg-bins={flag}"
fmt_rustc_link_arg_bins(flag) ==
    <<"r", "u", "s", "t", "c", "-", "l", "i", "n", "k", "-", "a", "r", "g", "-", "b", "i", "n", "s", "=">>
        \o flag

\* "rustc-link-arg-tests={flag}"
fmt_rustc_link_arg_tests(flag) ==
    <<"r", "u", "s", "t", "c", "-", "l", "i", "n", "k", "-", "a", "r", "g", "-", "t", "e", "s", "t", "s", "=">>
        \o flag

\* "rustc-link-arg-examples={flag}"
fmt_rustc_link_arg_examples(flag) ==
    <<"r", "u", "s", "t", "c", "-", "l", "i", "n", "k", "-", "a", "r", "g", "-", "e", "x", "a", "m", "p", "l", "e", "s", "=">>
        \o flag

\* "rustc-link-arg-benches={flag}"
fmt_rustc_link_arg_benches(flag) ==
    <<"r", "u", "s", "t", "c", "-", "l", "i", "n", "k", "-", "a", "r", "g", "-", "b", "e", "n", "c", "h", "e", "s", "=">>
        \o flag

\* A variant that takes the '=' out of the library spec.
fmt_rustc_link_lib_stripped(lib) ==
    <<"r", "u", "s", "t", "c", "-", "l", "i", "n", "k", "-", "l", "i", "b", "=">>
        \o SelectSeq(lib, LAMBDA c : c # "=")

\* "rustc-link-lib={lib}"
fmt_rustc_link_lib(lib) ==
    <<"r", "u", "s", "t", "c", "-", "l", "i", "n", "k", "-", "l", "i", "b", "=">>
        \o lib

\* Some(kind): "rustc-link-search={kind}={path}"; None: "rustc-link-search={path}"
fmt_rustc_link_search(kind, path) ==
    IF kind # None
    THEN <<"r", "u", "s", "t", "c", "-", "l", "i", "n", "k", "-", "s", "e", "a", "r", "c", "h", "=">>
             \o kind[1] \o EQ \o path
    ELSE <<"r", "u", "s", "t", "c", "-", "l", "i", "n", "k", "-", "s", "e", "a", "r", "c", "h", "=">>
             \o path

\* "rustc-flags={flags}"
fmt_rustc_flags(flags) ==
    <<"r", "u", "s", "t", "c", "-", "f", "l", "a", "g", "s", "=">>
        \o flags

\* A variant that writes the '=' whether or not there is a value.
fmt_rustc_cfg_trailing(key, value) ==
    <<"r", "u", "s", "t", "c", "-", "c", "f", "g", "=">>
        \o key \o EQ \o (IF value # None THEN value[1] ELSE << >>)

\* Some(value): "rustc-cfg={key}={value}"; None: "rustc-cfg={key}"
fmt_rustc_cfg(key, value) ==
    IF value # None
    THEN <<"r", "u", "s", "t", "c", "-", "c", "f", "g", "=">>
             \o key \o EQ \o value[1]
    ELSE <<"r", "u", "s", "t", "c", "-", "c", "f", "g", "=">>
             \o key

\* "rustc-env={var}={value}"
fmt_rustc_env(var, value) ==
    <<"r", "u", "s", "t", "c", "-", "e", "n", "v", "=">>
        \o var \o EQ \o value

\* "rustc-cdylib-link-arg={flag}"
fmt_rustc_cdylib_link_arg(flag) ==
    <<"r", "u", "s", "t", "c", "-", "c", "d", "y", "l", "i", "b", "-", "l", "i", "n", "k", "-", "a", "r", "g", "=">>
        \o flag

\* "warning={message}"
fmt_warning(message) ==
    <<"w", "a", "r", "n", "i", "n", "g", "=">>
        \o message

\* A variant that names the directive, as every other operation does.
fmt_metadata_named(key, value) ==
    <<"m", "e", "t", "a", "d", "a", "t", "a", "=">>
        \o key \o EQ \o value

\* "{key}={value}"
fmt_metadata(key, value) ==
    key \o EQ \o value

(* ------------------------------- state -------------------------------- *)

VARIABLES
    prefix,      \* prefix[t]: Prefix::prefix of t's context
    out,         \* out[t]: the variant of Prefix::out, "Buffer" or "Stdout"
    buffer,      \* buffer[t]: the Vec<u8> of Out::Buffer
    stdout,      \* the bytes the process's standard output has accepted, in order
    origin,      \* origin[i]: the emission (thread, call number) that wrote stdout[i]
    stdoutLock,  \* the thread that holds the lock of standard output, or Unlocked
    lock,        \* lock[t]: the local `lock` of out!: "Some", "None", or "gone"
    pc,          \* pc[t]: the statement t is at
    call,        \* call[t]: the call t is in, or made last
    pre,         \* pre[t]: the contents of t's sink when that call began
    trace,       \* trace[t]: what that call has done to the sink, in order
    result,      \* result[t]: what that call returned
    log,         \* log[t]: the raw emissions of t that returned Ok, in order
    ncalls,      \* ncalls[t]: the calls t has made
    budget       \* the calls the callers go on to make

vars ==
    <<prefix, out, buffer, stdout, origin, stdoutLock, lock, pc, call, pre,
      trace, result, log, ncalls, budget>>

Unlocked == "unlocked"

Threads == DOMAIN pc

NoCall ==
    [layer |-> "none", op |-> "none", args |-> << >>, body |-> << >>,
     path |-> << >>, behavior |-> "none", exists |-> FALSE]

InitWith(threads, kind, prefixes, buffers, calls) ==
    /\ prefix \in [threads -> prefixes]
    /\ out = [t \in threads |-> kind]
    /\ buffer \in [threads -> buffers]
    /\ stdout = << >>
    /\ origin = << >>
    /\ stdoutLock = Unlocked
    /\ lock = [t \in threads |-> "gone"]
    /\ pc = [t \in threads |-> "idle"]
    /\ call = [t \in threads |-> NoCall]
    /\ pre = [t \in threads |-> << >>]
    /\ trace = [t \in threads |-> << >>]
    /\ result = [t \in threads |-> "none"]
    /\ log = [t \in threads |-> << >>]
    /\ ncalls = [t \in threads |-> 0]
    /\ budget = calls

\* What the Vec of an Out::Buffer holds when a context is built over it:
\* nothing, or a line written before.
InitialBuffers == {<< >>, <<"z", "\n">>}

\* One context over an in-memory buffer, as tests::cargo_buffer builds it,
\* with either prefix and over either buffer.
Init == InitWith({Tester}, "Buffer", Prefixes, InitialBuffers, MaxCalls)

\* The same over an empty buffer, for a sequence of calls.
InitSeq == InitWith({Tester}, "Buffer", Prefixes, {<< >>}, MaxSeq)

\* raw::Cargo::default() in every producer: "cargo:" over standard output.
InitLive == InitWith(Producers, "Stdout", {CargoPrefix}, {<< >>}, MaxLive)

(* --------------------------- the sink (core.rs) ------------------------ *)

\* A variant that locks nothing.
OutLock_none(kind) == "None"

\* Out::lock: the lock of standard output, or nothing for a buffer.
OutLock(kind) == IF kind = "Stdout" THEN "Some" ELSE "None"

\* A variant that writes over what the buffer held.
VecWrite_overwrite(buf, bytes) == bytes

\* Vec<u8> as Write: the bytes are appended.
VecWrite(buf, bytes) == buf \o bytes

\* The lengths a failing write to standard output may have got through
\* before it failed: nothing, one byte, or all of it (the failure is then
\* that of the line writer's own flush).
PartialLengths(bytes) == {0, 1, Len(bytes)} \cap (0 .. Len(bytes))

\* Out::write_fmt: what a write of `bytes` may do. A Vec never fails;
\* standard output may, having taken some of the bytes.
WriteOutcomes(kind, bytes) ==
    IF kind = "Buffer"
    THEN {[res |-> "Ok", n |-> Len(bytes)]}
    ELSE {[res |-> "Ok", n |-> Len(bytes)]}
         \cup {[res |-> "Err", n |-> k] : k \in PartialLengths(bytes)}

\* Out::flush: Ok(()) for a buffer, the stream's own flush otherwise.
FlushOutcomes(kind) == IF kind = "Stdout" THEN {"Ok", "Err"} ELSE {"Ok"}

\* Stdout's lock is reentrant: a thread gets it when it is free or its own.
CanLock(t) == stdoutLock \in {Unlocked, t}

\* The sink of t takes `bytes`.
SinkAppend(t, bytes) ==
    IF out[t] = "Buffer"
    THEN /\ buffer' = [buffer EXCEPT ![t] = VecWrite(@, bytes)]
         /\ UNCHANGED <<stdout, origin>>
    ELSE /\ stdout' = stdout \o bytes
         /\ origin' = origin \o [i \in 1 .. Len(bytes) |-> <<t, ncalls[t]>>]
         /\ UNCHANGED buffer

\* The contents of the sink of t.
Sink(t) == IF out[t] = "Buffer" THEN buffer[t] ELSE stdout

(* ------------------------- the out! macro (raw.rs) --------------------- *)

\* A variant that goes on after an Err.
Try_swallow(res) == "Continue"

\* The `?` operator: an Err leaves the function with it, an Ok goes on to
\* the next statement.
Try(res) == IF res = "Err" THEN "Break" ELSE "Continue"

\* A variant that keeps the lock.
Release_never(t, held) == stdoutLock

\* drop of an OutLock: the lock of standard output is released if held.
Release(t, held) == IF held = "Some" /\ stdoutLock = t THEN Unlocked ELSE stdoutLock

\* A variant that leaves the function without dropping its locals.
ScopeExit_leak(t, held) == stdoutLock

\* The end of the scope of `lock`, at the end of the function or at a `?`
\* that leaves it: the OutLock is dropped if it was not before.
ScopeExit(t, held) == Release(t, held)

\* A call begins: what it was called with, and the sink as it found it.
Enter(t, c) ==
    /\ call' = [call EXCEPT ![t] = c]
    /\ pre' = [pre EXCEPT ![t] = Sink(t)]
    /\ ncalls' = [ncalls EXCEPT ![t] = @ + 1]
    /\ budget' = budget - 1

CanCall(t) == pc[t] = "idle" /\ budget > 0

\* The body of a raw operation begins: `let out = &mut $self.inner.out;`
Emit(t, op, args, body) ==
    /\ Enter(t, [NoCall EXCEPT !.layer = "raw", !.op = op, !.args = args,
                               !.body = body])
    /\ trace' = [trace EXCEPT ![t] = << >>]
    /\ result' = [result EXCEPT ![t] = "none"]
    /\ pc' = [pc EXCEPT ![t] = "lock"]
    /\ UNCHANGED <<prefix, out, buffer, stdout, origin, stdoutLock, lock, log>>

\* let lock = out.lock();
Lock(t) ==
    /\ pc[t] = "lock"
    /\ OutLock(out[t]) = "Some" => stdoutLock = Unlocked
    /\ lock' = [lock EXCEPT ![t] = OutLock(out[t])]
    /\ stdoutLock' = IF OutLock(out[t]) = "Some" THEN t ELSE stdoutLock
    /\ trace' = [trace EXCEPT ![t] = Append(@, <<"lock", "Ok">>)]
    /\ pc' = [pc EXCEPT ![t] = "write_prefix"]
    /\ UNCHANGED <<prefix, out, buffer, stdout, origin, call, pre, result, log, ncalls, budget>>

\* The function returns `res`: its locals go out of scope, `lock` among
\* them if it was not dropped before, and the caller has the result.
Returns(t, res, events) ==
    /\ result' = [result EXCEPT ![t] = res]
    /\ stdoutLock' = ScopeExit(t, lock[t])
    /\ lock' = [lock EXCEPT ![t] = "gone"]
    /\ trace' = [trace EXCEPT ![t] =
                     IF lock[t] = "gone" THEN @ \o events
                     ELSE @ \o events \o <<<<"drop", "Ok">>>>]
    /\ log' = [log EXCEPT ![t] =
                   IF res = "Ok"
                   THEN Append(@, [op |-> call[t].op, args |-> call[t].args])
                   ELSE @]
    /\ pc' = [pc EXCEPT ![t] = "idle"]

\* One write of out!, at statement `at`: the sink takes the bytes, or some
\* of them and fails, and `?` returns the failure or goes on to `next`.
Write(t, at, bytes, next) ==
    /\ pc[t] = at
    /\ out[t] = "Stdout" => CanLock(t)
    /\ \E w \in WriteOutcomes(out[t], bytes) :
          /\ SinkAppend(t, Take(bytes, w.n))
          /\ IF Try(w.res) = "Break"
             THEN Returns(t, w.res, <<<<at, w.res>>>>)
             ELSE /\ trace' = [trace EXCEPT ![t] = Append(@, <<at, w.res>>)]
                  /\ pc' = [pc EXCEPT ![t] = next]
                  /\ UNCHANGED <<stdoutLock, lock, result, log>>
    /\ UNCHANGED <<prefix, out, call, pre, ncalls, budget>>

\* write!(out, "{}", $self.inner.prefix)?;
WritePrefix(t) == Write(t, "write_prefix", prefix[t], "writeln")

\* A variant that writes the body with write!, without the line terminator.
WriteLine_unterminated(t) == Write(t, "writeln", call[t].body, "drop")

\* writeln!(out, $($arg)*)?;
WriteLine(t) == Write(t, "writeln", call[t].body \o NL, "drop")

\* drop(lock);
DropLock(t) ==
    /\ pc[t] = "drop"
    /\ stdoutLock' = Release(t, lock[t])
    /\ lock' = [lock EXCEPT ![t] = "gone"]
    /\ trace' = [trace EXCEPT ![t] = Append(@, <<"drop", "Ok">>)]
    /\ pc' = [pc EXCEPT ![t] = "flush"]
    /\ UNCHANGED <<prefix, out, buffer, stdout, origin, call, pre, result, log, ncalls, budget>>

\* out.flush()?; Ok(())
Flush(t) ==
    /\ pc[t] = "flush"
    /\ out[t] = "Stdout" => CanLock(t)
    /\ \E r \in FlushOutcomes(out[t]) :
          Returns(t, IF Try(r) = "Break" THEN r ELSE "Ok", <<<<"flush", r>>>>)
    /\ UNCHANGED <<prefix, out, buffer, stdout, origin, call, pre, ncalls, budget>>

(* --------------------- the operations of raw::Cargo -------------------- *)

SingleOps ==
    {"rerun_if_changed", "rerun_if_env_changed", "rustc_link_arg",
     "rustc_link_arg_bins", "rustc_link_arg_tests", "rustc_link_arg_examples",
     "rustc_link_arg_benches", "rustc_link_lib", "rustc_flags",
     "rustc_cdylib_link_arg", "warning"}

PairOps == {"rustc_link_arg_bin", "rustc_env", "metadata"}

\* The arguments an operation is called with.
ArgsOf(op) ==
    CASE op = "warning" -> {<<m>> : m \in Messages}
      [] op \in SingleOps \ {"warning"} -> {<<v>> : v \in Values}
      [] op \in PairOps -> {<<a, b>> : a \in Values, b \in Values}
      [] op = "rustc_link_search" -> {<<k, v>> : k \in Options(Values), v \in Values}
      [] op = "rustc_cfg" -> {<<k, v>> : k \in Values, v \in Options(Values)}

raw_rerun_if_changed(t) ==
    \E a \in ArgsOf("rerun_if_changed") :
        /\ CanCall(t)
        /\ Emit(t, "rerun_if_changed", a, fmt_rerun_if_changed(a[1]))

raw_rerun_if_env_changed(t) ==
    \E a \in ArgsOf("rerun_if_env_changed") :
        /\ CanCall(t)
        /\ Emit(t, "rerun_if_env_changed", a, fmt_rerun_if_env_changed(a[1]))

raw_rustc_link_arg(t) ==
    \E a \in ArgsOf("rustc_link_arg") :
        /\ CanCall(t)
        /\ Emit(t, "rustc_link_arg", a, fmt_rustc_link_arg(a[1]))

raw_rustc_link_arg_bin(t) ==
    \E a \in ArgsOf("rustc_link_arg_bin") :
        /\ CanCall(t)
        /\ Emit(t, "rustc_link_arg_bin", a, fmt_rustc_link_arg_bin(a[1], a[2]))

raw_rustc_link_arg_bins(t) ==
    \E a \in ArgsOf("rustc_link_arg_bins") :
        /\ CanCall(t)
        /\ Emit(t, "rustc_link_arg_bins", a, fmt_rustc_link_arg_bins(a[1]))

raw_rustc_link_arg_tests(t) ==
    \E a \in ArgsOf("rustc_link_arg_tests") :
        /\ CanCall(t)
        /\ Emit(t, "rustc_link_arg_tests", a, fmt_rustc_link_arg_tests(a[1]))

raw_rustc_link_arg_examples(t) ==
    \E a \in ArgsOf("rustc_link_arg_examples") :
        /\ CanCall(t)
        /\ Emit(t, "rustc_link_arg_examples", a, fmt_rustc_link_arg_examples(a[1]))

raw_rustc_link_arg_benches(t) ==
    \E a \in ArgsOf("rustc_link_arg_benches") :
        /\ CanCall(t)
        /\ Emit(t, "rustc_link_arg_benches", a, fmt_rustc_link_arg_benches(a[1]))

raw_rustc_link_lib(t) ==
    \E a \in ArgsOf("rustc_link_lib") :
        /\ CanCall(t)
        /\ Emit(t, "rustc_link_lib", a, fmt_rustc_link_lib(a[1]))

raw_rustc_link_search(t) ==
    \E a \in ArgsOf("rustc_link_search") :
        /\ CanCall(t)
        /\ Emit(t, "rustc_link_search", a, fmt_rustc_link_search(a[1], a[2]))

raw_rustc_flags(t) ==
    \E a \in ArgsOf("rustc_flags") :
        /\ CanCall(t)
        /\ Emit(t, "rustc_flags", a, fmt_rustc_flags(a[1]))

raw_rustc_cfg(t) ==
    \E a \in ArgsOf("rustc_cfg") :
        /\ CanCall(t)
        /\ Emit(t, "rustc_cfg", a, fmt_rustc_cfg(a[1], a[2]))

raw_rustc_env(t) ==
    \E a \in ArgsOf("rustc_env") :
        /\ CanCall(t)
        /\ Emit(t, "rustc_env", a, fmt_rustc_env(a[1], a[2]))

raw_rustc_cdylib_link_arg(t) ==
    \E a \in ArgsOf("rustc_cdylib_link_arg") :
        /\ CanCall(t)
        /\ Emit(t, "rustc_cdylib_link_arg", a, fmt_rustc_cdylib_link_arg(a[1]))

raw_warning(t) ==
    \E a \in ArgsOf("warning") :
        /\ CanCall(t)
        /\ Emit(t, "warning", a, fmt_warning(a[1]))

raw_metadata(t) ==
    \E a \in ArgsOf("metadata") :
        /\ CanCall(t)
        /\ Emit(t, "metadata", a, fmt_metadata(a[1], a[2]))

\* The body a raw operation writes for its arguments.
RawBody(op, a) ==
    CASE op = "rerun_if_changed" -> fmt_rerun_if_changed(a[1])
      [] op = "rerun_if_env_changed" -> fmt_rerun_if_env_changed(a[1])
      [] op = "rustc_link_arg" -> fmt_rustc_link_arg(a[1])
      [] op = "rustc_link_arg_bin" -> fmt_rustc_link_arg_bin(a[1], a[2])
      [] op = "rustc_link_arg_bins" -> fmt_rustc_link_arg_bins(a[1])
      [] op = "rustc_link_arg_tests" -> fmt_rustc_link_arg_tests(a[1])
      [] op = "rustc_link_arg_examples" -> fmt_rustc_link_arg_examples(a[1])
      [] op = "rustc_link_arg_benches" -> fmt_rustc_link_arg_benches(a[1])
      [] op = "rustc_link_lib" -> fmt_rustc_link_lib(a[1])
      [] op = "rustc_link_search" -> fmt_rustc_link_search(a[1], a[2])
      [] op = "rustc_flags" -> fmt_rustc_flags(a[1])
      [] op = "rustc_cfg" -> fmt_rustc_cfg(a[1], a[2])
      [] op = "rustc_env" -> fmt_rustc_env(a[1], a[2])
      [] op = "rustc_cdylib_link_arg" -> fmt_rustc_cdylib_link_arg(a[1])
      [] op = "warning" -> fmt_warning(a[1])
      [] op = "metadata" -> fmt_metadata(a[1], a[2])

(* ------------------- the convenience layer (lib.rs) -------------------- *)

PathBehavior == {"OnlyIfExists", "MustExist", "Always"}

\* Path::display: the path as text, each byte that is not UTF-8 shown as
\* the replacement character.
Display(path) ==
    [i \in 1 .. Len(path) |-> IF path[i] = NonUtf8 THEN Replacement ELSE path[i]]

\* A variant whose MustExist lets a missing path pass.
PathDecision_lenient(behavior, exists) ==
    CASE behavior = "Always" -> "emit"
      [] behavior = "OnlyIfExists" /\ exists -> "emit"
      [] behavior = "OnlyIfExists" /\ ~exists -> "Ok"
      [] behavior = "MustExist" /\ exists -> "emit"
      [] behavior = "MustExist" /\ ~exists -> "Ok"

\* The arms of `match (behavior, path.exists())`.
PathDecision(behavior, exists) ==
    CASE behavior = "Always" -> "emit"
      [] behavior = "OnlyIfExists" /\ exists -> "emit"
      [] behavior = "OnlyIfExists" /\ ~exists -> "Ok"
      [] behavior = "MustExist" /\ exists -> "emit"
      [] behavior = "MustExist" /\ ~exists -> "NotFound"

\* Cargo::rerun_if_changed of lib.rs: the scrutinee of the match is
\* evaluated, path.exists() with it, and the arm taken either enters the
\* raw operation with the display form of the path or returns at once.
lib_rerun_if_changed(t) ==
    \E path \in Paths, behavior \in PathBehavior, exists \in BOOLEAN :
        LET display == Display(path)
            d == PathDecision(behavior, exists)
        IN /\ CanCall(t)
           /\ Enter(t, [NoCall EXCEPT !.layer = "lib", !.op = "rerun_if_changed",
                                      !.args = <<display>>,
                                      !.body = fmt_rerun_if_changed(display),
                                      !.path = path, !.behavior = behavior,
                                      !.exists = exists])
           /\ trace' = [trace EXCEPT ![t] =
                            <<<<"exists", IF exists THEN "true" ELSE "false">>>>]
           /\ result' = [result EXCEPT ![t] = IF d = "emit" THEN "none" ELSE d]
           /\ pc' = [pc EXCEPT ![t] = IF d = "emit" THEN "lock" ELSE "idle"]
           /\ UNCHANGED <<prefix, out, buffer, stdout, origin, stdoutLock, lock, log>>

\* The operations of lib.rs whose body is todo!().
Unimplemented == (SingleOps \ {"rerun_if_changed"}) \cup PairOps
                     \cup {"rustc_link_search", "rustc_cfg"}

\* todo!(): the call panics before it touches the sink.
lib_unimplemented(t) ==
    \E op \in Unimplemented :
        \E a \in ArgsOf(op) :
            /\ CanCall(t)
            /\ Enter(t, [NoCall EXCEPT !.layer = "lib", !.op = op, !.args = a])
            /\ trace' = [trace EXCEPT ![t] = << >>]
            /\ result' = [result EXCEPT ![t] = "panic"]
            /\ pc' = [pc EXCEPT ![t] = "panicked"]
            /\ UNCHANGED <<prefix, out, buffer, stdout, origin, stdoutLock, lock, log>>

(* --------------------------- specifications ---------------------------- *)

Next ==
    \E t \in {Tester} :
        \/ raw_rerun_if_changed(t)
        \/ raw_rerun_if_env_changed(t)
        \/ raw_rustc_link_arg(t)
        \/ raw_rustc_link_arg_bin(t)
        \/ raw_rustc_link_arg_bins(t)
        \/ raw_rustc_link_arg_tests(t)
        \/ raw_rustc_link_arg_examples(t)
        \/ raw_rustc_link_arg_benches(t)
        \/ raw_rustc_link_lib(t)
        \/ raw_rustc_link_search(t)
        \/ raw_rustc_flags(t)
        \/ raw_rustc_cfg(t)
        \/ raw_rustc_env(t)
        \/ raw_rustc_cdylib_link_arg(t)
        \/ raw_warning(t)
        \/ raw_metadata(t)
        \/ lib_rerun_if_changed(t)
        \/ lib_unimplemented(t)
        \/ Lock(t)
        \/ WritePrefix(t)
        \/ WriteLine(t)
        \/ DropLock(t)
        \/ Flush(t)

\* One context over a captured sink, every operation of both layers.
Spec == Init /\ [][Next]_vars

\* A sequence of raw calls on one context over a captured sink that starts
\* empty: an operation of each shape of format string.
NextSeq ==
    \E t \in {Tester} :
        \/ raw_rerun_if_changed(t)
        \/ raw_rustc_link_search(t)
        \/ raw_rustc_cfg(t)
        \/ raw_rustc_env(t)
        \/ raw_warning(t)
        \/ raw_metadata(t)
        \/ Lock(t)
        \/ WritePrefix(t)
        \/ WriteLine(t)
        \/ DropLock(t)
        \/ Flush(t)

SpecSeq == InitSeq /\ [][NextSeq]_vars

\* The producers emit to standard output at the same time. The out! macro
\* is the same in every operation, so two of them stand for all.
NextLive ==
    \E t \in Producers :
        \/ raw_rerun_if_changed(t)
        \/ raw_rustc_link_lib(t)
        \/ Lock(t)
        \/ WritePrefix(t)
        \/ WriteLine(t)
        \/ DropLock(t)
        \/ Flush(t)

SpecLive == InitLive /\ [][NextLive]_vars

(* ------------------------------ properties ----------------------------- *)

\* The directive names of the grammar, by operation.
DirectiveName(op) ==
    CASE op = "rerun_if_changed" ->
           <<"r", "e", "r", "u", "n", "-", "i", "f", "-", "c", "h", "a", "n", "g", "e", "d">>
      [] op = "rerun_if_env_changed" ->
           <<"r", "e", "r", "u", "n", "-", "i", "f", "-", "e", "n", "v", "-", "c", "h", "a", "n", "g", "e", "d">>
      [] op = "rustc_link_arg" ->
           <<"r", "u", "s", "t", "c", "-", "l", "i", "n", "k", "-", "a", "r", "g">>
      [] op = "rustc_link_arg_bin" ->
           <<"r", "u", "s", "t", "c", "-", "l", "i", "n", "k", "-", "a", "r", "g", "-", "b", "i", "n">>
      [] op = "rustc_link_arg_bins" ->
           <<"r", "u", "s", "t", "c", "-", "l", "i", "n", "k", "-", "a", "r", "g", "-", "b", "i", "n", "s">>
      [] op = "rustc_link_arg_tests" ->
           <<"r", "u", "s", "t", "c", "-", "l", "i", "n", "k", "-", "a", "r", "g", "-", "t", "e", "s", "t", "s">>
      [] op = "rustc_link_arg_examples" ->
           <<"r", "u", "s", "t", "c", "-", "l", "i", "n", "k", "-", "a", "r", "g", "-", "e", "x", "a", "m", "p", "l", "e", "s">>
      [] op = "rustc_link_arg_benches" ->
           <<"r", "u", "s", "t", "c", "-", "l", "i", "n", "k", "-", "a", "r", "g", "-", "b", "e", "n", "c", "h", "e", "s">>
      [] op = "rustc_link_lib" ->
           <<"r", "u", "s", "t", "c", "-", "l", "i", "n", "k", "-", "l", "i", "b">>
      [] op = "rustc_link_search" ->
           <<"r", "u", "s", "t", "c", "-", "l", "i", "n", "k", "-", "s", "e", "a", "r", "c", "h">>
      [] op = "rustc_flags" ->
           <<"r", "u", "s", "t", "c", "-", "f", "l", "a", "g", "s">>
      [] op = "rustc_cfg" ->
           <<"r", "u", "s", "t", "c", "-", "c", "f", "g">>
      [] op = "rustc_env" ->
           <<"r", "u", "s", "t", "c", "-", "e", "n", "v">>
      [] op = "rustc_cdylib_link_arg" ->
           <<"r", "u", "s", "t", "c", "-", "c", "d", "y", "l", "i", "b", "-", "l", "i", "n", "k", "-", "a", "r", "g">>
      [] op = "warning" ->
           <<"w", "a", "r", "n", "i", "n", "g">>

IsPrefixOf(s, r) == Len(s) <= Len(r) /\ Take(r, Len(s)) = s

\* The call of t has returned to its caller.
Returned(t) == pc[t] = "idle" /\ result[t] # "none"

\* The raw call of t, made directly on the raw layer, has returned Ok.
RawDone(t, ops) ==
    /\ Returned(t)
    /\ call[t].layer = "raw"
    /\ call[t].op \in ops
    /\ result[t] = "Ok"

\* C1: a successful single-value raw operation on a captured sink has
\* appended exactly prefix + name + "=" + v + "\n" to what the buffer held,
\* with its verbatim directive name and the value as it was passed.
C1_SingleValueLine ==
    \A t \in Threads :
        RawDone(t, SingleOps) =>
            buffer[t] = pre[t] \o prefix[t] \o DirectiveName(call[t].op) \o EQ
                            \o call[t].args[1] \o NL

C1_Witness ==
    \E t \in Threads :
        /\ RawDone(t, {"rustc_link_lib"})
        /\ call[t].args[1] = <<":", "=">>
        /\ prefix[t] = CargoPrefix
        /\ pre[t] # << >>

\* C2: rustc_link_arg_bin(T, F) and rustc_env(var, value) append exactly
\* prefix + name + "=" + first + "=" + second + "\n", and metadata(key,
\* value) appends prefix + key + "=" + value + "\n" with no directive name;
\* the first argument is the middle segment and the second the last one.
C2_TwoArgumentLine ==
    \A t \in Threads :
        RawDone(t, PairOps) =>
            LET a == call[t].args[1]
                b == call[t].args[2]
            IN buffer[t] = pre[t] \o prefix[t]
                   \o (IF call[t].op = "metadata" THEN << >>
                       ELSE DirectiveName(call[t].op) \o EQ)
                   \o a \o EQ \o b \o NL

C2_Witness ==
    \E t \in Threads :
        /\ RawDone(t, {"metadata"})
        /\ call[t].args[1] # call[t].args[2]
        /\ prefix[t] = CargoPrefix

\* C3: rustc_cfg(key, Some(value)) appends prefix + "rustc-cfg=" + key + "="
\* + value + "\n" and rustc_cfg(key, None) prefix + "rustc-cfg=" + key +
\* "\n"; rustc_link_search(Some(kind), path) appends prefix +
\* "rustc-link-search=" + kind + "=" + path + "\n" and
\* rustc_link_search(None, path) prefix + "rustc-link-search=" + path +
\* "\n". The name is the same either way and one line is written.
C3_OptionalSegmentLine ==
    \A t \in Threads :
        RawDone(t, {"rustc_cfg", "rustc_link_search"}) =>
            LET a == call[t].args[1]
                b == call[t].args[2]
                seg == IF call[t].op = "rustc_cfg"
                       THEN (IF b = None THEN a ELSE a \o EQ \o b[1])
                       ELSE (IF a = None THEN b ELSE a[1] \o EQ \o b)
            IN /\ buffer[t] = pre[t] \o prefix[t] \o DirectiveName(call[t].op)
                                  \o EQ \o seg \o NL
               /\ Len(SelectSeq(trace[t], LAMBDA e : e[1] = "writeln")) = 1

C3_Witness ==
    \E t \in Threads :
        /\ RawDone(t, {"rustc_cfg"})
        /\ call[t].args[2] = None
        /\ prefix[t] = CargoPrefix

\* C4: the rerun_if_changed of the convenience layer emits the
\* rerun-if-changed line of the display form of the path if and only if the
\* behavior is Always or the path exists; it returns NotFound if and only
\* if the behavior is MustExist and the path does not exist, and otherwise
\* what the emission returns; when the line is not emitted the sink holds
\* what it held before the call.
C4_PathPolicy ==
    \A t \in Threads :
        (Returned(t) /\ call[t].layer = "lib" /\ call[t].op = "rerun_if_changed") =>
            LET line == prefix[t] \o DirectiveName("rerun_if_changed") \o EQ
                            \o Display(call[t].path) \o NL
                emits == call[t].behavior = "Always" \/ call[t].exists
            IN /\ (buffer[t] = pre[t] \o line) <=> emits
               /\ (result[t] = "NotFound")
                      <=> (call[t].behavior = "MustExist" /\ ~call[t].exists)
               /\ result[t] \in {"NotFound", "Ok"}
               /\ ~emits => buffer[t] = pre[t]

C4_Witness ==
    \E t \in Threads :
        /\ Returned(t)
        /\ call[t].layer = "lib"
        /\ call[t].behavior = "MustExist"
        /\ ~call[t].exists
        /\ result[t] = "NotFound"
        /\ pre[t] # << >>

\* The body the grammar gives an operation and its arguments.
ExpectedBody(op, a) ==
    CASE op \in SingleOps -> DirectiveName(op) \o EQ \o a[1]
      [] op \in {"rustc_link_arg_bin", "rustc_env"} ->
           DirectiveName(op) \o EQ \o a[1] \o EQ \o a[2]
      [] op = "metadata" -> a[1] \o EQ \o a[2]
      [] op = "rustc_cfg" ->
           DirectiveName(op) \o EQ
               \o (IF a[2] = None THEN a[1] ELSE a[1] \o EQ \o a[2][1])
      [] op = "rustc_link_search" ->
           DirectiveName(op) \o EQ
               \o (IF a[1] = None THEN a[2] ELSE a[1][1] \o EQ \o a[2])

\* The lines of a sequence of calls, each as it would be written alone.
RECURSIVE ExpectedLines(_, _)
ExpectedLines(pfx, calls) ==
    IF calls = << >> THEN << >>
    ELSE pfx \o ExpectedBody(Head(calls).op, Head(calls).args) \o NL
             \o ExpectedLines(pfx, Tail(calls))

CountNL(text) == Len(SelectSeq(text, LAMBDA c : c = "\n"))

\* The texts among the arguments of a call, an absent one left out.
ArgTexts(op, a) ==
    CASE op = "rustc_cfg" -> <<a[1]>> \o a[2]
      [] op = "rustc_link_search" -> a[1] \o <<a[2]>>
      [] OTHER -> a

\* No argument of the calls holds a line terminator.
NoTerminatorIn(calls) ==
    \A i \in 1 .. Len(calls) :
        LET texts == ArgTexts(calls[i].op, calls[i].args)
        IN \A j \in 1 .. Len(texts) : CountNL(texts[j]) = 0

\* C5: after a sequence of successful raw calls on one context over a
\* captured sink that starts empty, the buffer is the concatenation, in
\* call order, of the line each call writes on its own; while a later call
\* runs the earlier lines stay as they are; and after k calls the buffer
\* holds k line terminators when no argument holds one.
C5_Concatenation ==
    \A t \in Threads :
        /\ IsPrefixOf(ExpectedLines(prefix[t], log[t]), buffer[t])
        /\ pc[t] = "idle" =>
              /\ Len(log[t]) = ncalls[t]
              /\ buffer[t] = ExpectedLines(prefix[t], log[t])
              /\ NoTerminatorIn(log[t]) => CountNL(buffer[t]) = ncalls[t]

C5_Witness ==
    \E t \in Threads :
        /\ pc[t] = "idle"
        /\ Len(log[t]) = 2
        /\ log[t][1].op = "rustc_cfg"
        /\ log[t][2].op = "metadata"
        /\ NoTerminatorIn(log[t])
        /\ prefix[t] = CargoPrefix

\* C6: an operation of the convenience layer other than rerun_if_changed
\* returns what the raw operation of its name returns for the same
\* arguments, Ok on a captured sink, and leaves the sink as that one does.
C6_PassThrough ==
    \A t \in Threads :
        (call[t].layer = "lib" /\ call[t].op \in Unimplemented
             /\ pc[t] \in {"idle", "panicked"}) =>
            /\ result[t] = "Ok"
            /\ buffer[t] = pre[t] \o prefix[t] \o RawBody(call[t].op, call[t].args) \o NL

\* The steps of out! that write to the sink or flush it.
IoSteps == {"write_prefix", "writeln", "flush"}

Failed(e) == e[1] \in IoSteps /\ e[2] = "Err"

\* C7: a failure of the prefix write, of the body write or of the flush is
\* returned to the caller as the failure of that call: once a step has
\* failed the call has returned Err, nothing was written or flushed after
\* the failing step, and no step was made twice.
C7_FailureIsTerminal ==
    \A t \in Threads :
        LET tr == trace[t]
        IN /\ \A i \in 1 .. Len(tr) :
                  Failed(tr[i]) =>
                      /\ Returned(t)
                      /\ result[t] = "Err"
                      /\ \A j \in (i + 1) .. Len(tr) : tr[j][1] \notin IoSteps
           /\ \A i, j \in 1 .. Len(tr) :
                  (i < j /\ tr[i][1] \in IoSteps) => tr[j][1] # tr[i][1]
           /\ (Returned(t) /\ call[t].layer = "raw" /\ result[t] = "Ok") =>
                  tr = <<<<"lock", "Ok">>, <<"write_prefix", "Ok">>,
                         <<"writeln", "Ok">>, <<"drop", "Ok">>, <<"flush", "Ok">>>>

C7_Witness ==
    \E t \in Threads :
        /\ Returned(t)
        /\ result[t] = "Err"
        /\ trace[t] = <<<<"lock", "Ok">>, <<"write_prefix", "Err">>, <<"drop", "Ok">>>>
        /\ Len(stdout) > 0

\* C8: on standard output the bytes of one emission are contiguous under
\* every interleaving of the producers: once a byte of another emission
\* follows, no byte of the first comes after it; and a producer between
\* its lock and the release of it holds the lock of the stream.
C8_ContiguousLines ==
    /\ \A i \in 1 .. (Len(origin) - 1) :
           origin[i + 1] # origin[i] =>
               \A k \in (i + 1) .. Len(origin) : origin[k] # origin[i]
    /\ \A t \in Threads :
           pc[t] \in {"write_prefix", "writeln", "drop"} => stdoutLock = t

C8_Witness ==
    \E t, u \in Threads :
        /\ t # u
        /\ pc[t] = "writeln"
        /\ pc[u] = "lock"
        /\ stdoutLock = t
        /\ stdout = prefix[t]

\* C9: the lock of the sink is held only inside one emission: a producer
\* that holds it is between the lock and the release of its emission, a
\* call that has returned, with whatever result, holds no lock, and when
\* no emission is between its lock and its release the lock is free for
\* the next one.
C9_LockOnlyInsideEmission ==
    /\ \A t \in Threads :
           /\ stdoutLock = t =>
                  pc[t] \in {"write_prefix", "writeln", "drop"} /\ lock[t] = "Some"
           /\ pc[t] = "idle" => lock[t] = "gone" /\ stdoutLock # t
    /\ (\A t \in Threads : pc[t] \in {"idle", "lock", "flush"}) => stdoutLock = Unlocked

C9_Witness ==
    \E t, u \in Threads :
        /\ t # u
        /\ Returned(t)
        /\ result[t] = "Err"
        /\ \E i \in 1 .. Len(trace[t]) : trace[t][i] = <<"writeln", "Err">>
        /\ stdoutLock = u

Position(tr, step) == {i \in 1 .. Len(tr) : tr[i][1] = step}

\* C10, as claimed: every raw emission that returns has released the lock
\* and then flushed the sink, whether its writes succeeded or not.
C10_ReleaseThenFlushAlways ==
    \A t \in Threads :
        (Returned(t) /\ call[t].layer = "raw") =>
            \E i \in Position(trace[t], "drop") :
                \E j \in Position(trace[t], "flush") : i < j

\* C10, amended: every raw emission that returns has released the lock;
\* it has flushed the sink if and only if both its writes succeeded, and
\* then after the release; an emission whose write failed returns without
\* a flush; and no emission flushes while it holds the lock.
C10_ReleaseThenFlushOnSuccess ==
    \A t \in Threads :
        /\ (Returned(t) /\ call[t].layer = "raw") =>
               LET tr == trace[t]
                   wrote == /\ <<"write_prefix", "Ok">> \in {tr[i] : i \in 1 .. Len(tr)}
                            /\ <<"writeln", "Ok">> \in {tr[i] : i \in 1 .. Len(tr)}
               IN /\ Cardinality(Position(tr, "drop")) = 1
                  /\ Position(tr, "flush") # {} <=> wrote
                  /\ \A j \in Position(tr, "flush") :
                         \E i \in Position(tr, "drop") : i < j
        /\ pc[t] = "flush" => stdoutLock # t /\ lock[t] = "gone"

C10_Witness ==
    \E t \in Threads :
        /\ Returned(t)
        /\ result[t] = "Err"
        /\ trace[t] = <<<<"lock", "Ok">>, <<"write_prefix", "Ok">>,
                        <<"writeln", "Err">>, <<"drop", "Ok">>>>
        /\ stdoutLock = Unlocked

\* C11: with the Always behavior the rerun_if_changed of the convenience
\* layer does not check the path: the query whether the path exists is made
\* only when the behavior is OnlyIfExists or MustExist.
C11_AlwaysSkipsExistenceQuery ==
    \A t \in Threads :
        (call[t].layer = "lib" /\ call[t].op = "rerun_if_changed"
             /\ Position(trace[t], "exists") # {}) =>
            call[t].behavior \in {"OnlyIfExists", "MustExist"}

\* The bytes of standard output that the n-th call of t wrote, in order.
Piece(t, n) ==
    LET tagged == [i \in 1 .. Len(stdout) |-> <<stdout[i], origin[i]>>]
        own == SelectSeq(tagged, LAMBDA z : z[2] = <<t, n>>)
    IN [i \in 1 .. Len(own) |-> own[i][1]]

\* The pieces of the calls of t, in call order.
Pieces(t) == [n \in 1 .. ncalls[t] |-> Piece(t, n)]

\* The line of the call t is in, or made last.
LineOf(t) == prefix[t] \o ExpectedBody(call[t].op, call[t].args) \o NL

\* The lines of the emissions of t that returned Ok, in call order.
LogLines(t) ==
    [i \in 1 .. Len(log[t]) |->
        prefix[t] \o ExpectedBody(log[t][i].op, log[t][i].args) \o NL]

RECURSIVE IsSubsequence(_, _)
IsSubsequence(xs, ys) ==
    IF xs = << >> THEN TRUE
    ELSE IF ys = << >> THEN FALSE
    ELSE IF Head(xs) = Head(ys) THEN IsSubsequence(Tail(xs), Tail(ys))
    ELSE IsSubsequence(xs, Tail(ys))

\* C12, as claimed: when no emission holds the lock of the sink, what each
\* emission has left in it is nothing or a complete line, prefix first and
\* line terminator last, and an emission that returned a failure has left
\* none of its bytes.
C12_NoPartialLine ==
    stdoutLock = Unlocked =>
        \A t \in Threads :
            /\ \A n \in 1 .. ncalls[t] :
                   LET p == Piece(t, n)
                   IN \/ p = << >>
                      \/ IsPrefixOf(prefix[t], p) /\ p[Len(p)] = "\n"
            /\ (Returned(t) /\ result[t] = "Err") => Piece(t, ncalls[t]) = << >>

\* C12, amended: what an emission has left in the sink is the part of its
\* line prefix + body + "\n" written so far, the whole line once it has
\* returned Ok; the lines of the emissions that returned Ok are all there,
\* in call order. An emission that returned a failure keeps what it wrote
\* before the failure in the sink: nothing, a part of its line such as the
\* prefix without its body, or the whole line.
C12_PiecesOfLines ==
    \A t \in Threads :
        /\ ncalls[t] > 0 =>
               /\ IsPrefixOf(Piece(t, ncalls[t]), LineOf(t))
               /\ (Returned(t) /\ result[t] = "Ok") => Piece(t, ncalls[t]) = LineOf(t)
               /\ (Returned(t) /\ result[t] = "Err") =>
                      LET wrote == {trace[t][i] : i \in 1 .. Len(trace[t])}
                      IN /\ <<"flush", "Err">> \in wrote => Piece(t, ncalls[t]) = LineOf(t)
                         /\ <<"write_prefix", "Err">> \in wrote =>
                                IsPrefixOf(Piece(t, ncalls[t]), prefix[t])
                         /\ <<"writeln", "Err">> \in wrote =>
                                IsPrefixOf(prefix[t], Piece(t, ncalls[t]))
        /\ IsSubsequence(LogLines(t), Pieces(t))

C12_Witness ==
    \E t \in Threads :
        /\ Returned(t)
        /\ result[t] = "Err"
        /\ <<"writeln", "Err">> \in {trace[t][i] : i \in 1 .. Len(trace[t])}
        /\ Piece(t, ncalls[t]) = prefix[t]
        /\ stdoutLock = Unlocked
        /\ \E u \in Threads : u # t /\ result[u] = "Ok" /\ Piece(u, ncalls[u]) = LineOf(u)

====
